---- MODULE Spec2Model ----
(***************************************************************************)
(* PyMARE, pymare/results.py: the MetaRegressionResults container.         *)
(*                                                                         *)
(* Numbers are fixed point, in thousandths (1.96 is 1960), and every       *)
(* arithmetic step rounds down as it goes, the way a floating-point        *)
(* computation rounds after each operation.  A statistic is a record       *)
(* [nan, n]: the code's only source of non-finite values is the weight     *)
(* 1 / (v + tau2) with v + tau2 = 0.                                       *)
(*                                                                         *)
(* The design matrix has one column (p = 1), so that the pseudo-inverse    *)
(* of X' W X is the scalar one: 1/a for a # 0, and 0 for a = 0.            *)
(***************************************************************************)
EXTENDS Integers, Sequences, FiniteSets, TLC

----------------------------------------------------------------------------
(* Bounds of the model *)

\* number of studies k (rows of y, v, X)
K == 2
\* sampling variances v_i, tau2 and sigma estimates range over 0..MaxV
MaxV == 1
\* the observed effects are y_i = 2 * i * s for a spread s in 0..MaxY
MaxY == 1
\* compute_stats calls in one run of the single-container specification
MaxCalls == 2

----------------------------------------------------------------------------
(* Values *)

Milli(n) == n * 1000

\* Python's None, and a present optional value
None == <<>>
Some(x) == <<x>>
Get(o) == o[1]

Fin(n) == [nan |-> FALSE, n |-> n]
NaN == [nan |-> TRUE, n |-> 0]

Studies == 1..K

\* the alpha values of the model, in thousandths: 0.05 and 0.2
Alphas == {50, 200}
\* ci_method tags: the supported one and another
Methods == {"QP", "ML"}

RECURSIVE SumTo(_, _)
SumTo(f, n) == IF n = 0 THEN 0 ELSE f[n] + SumTo(f, n - 1)

Sum(f) == SumTo(f, Len(f))

RECURSIVE ISqrtIter(_, _)
ISqrtIter(n, r) ==
    LET r2 == (r + n \div r) \div 2
    IN IF r2 >= r THEN r ELSE ISqrtIter(n, r2)

\* np.sqrt on a non-negative fixed-point value, result in thousandths
np_sqrt(m) == IF m = 0 THEN 0 ELSE ISqrtIter(m * 1000, m * 1000)

\* dict.update: the fields of u overwrite or extend those of d
DictUpdate(d, u) ==
    [f \in (DOMAIN d) \cup (DOMAIN u) |-> IF f \in DOMAIN u THEN u[f] ELSE d[f]]

\* dict.get(key, default)
DictGet(d, key, default) == IF key \in DOMAIN d THEN d[key] ELSE default

----------------------------------------------------------------------------
(* scipy.stats *)

\* ss.norm.ppf(1 - alpha / 2)
norm_ppf_upper(alpha) ==
    CASE alpha = 50 -> 1960
      [] alpha = 100 -> 1645
      [] alpha = 200 -> 1282
      [] OTHER -> 0

\* ss.norm.cdf(z) for z >= 0, to the table's resolution
norm_cdf_pos(z) ==
    CASE z >= 2576 -> 995
      [] z >= 1960 -> 975
      [] z >= 1645 -> 950
      [] z >= 1282 -> 900
      [] z >= 674 -> 750
      [] z >= 253 -> 600
      [] OTHER -> 500

norm_cdf(z) == IF z >= 0 THEN norm_cdf_pos(z) ELSE 1000 - norm_cdf_pos(-z)

Abs(n) == IF n < 0 THEN -n ELSE n

----------------------------------------------------------------------------
(* _compute_beta_stats *)

\* w = 1. / (v + tau2), one study: numpy divides by zero to inf, with a
\* warning and no exception
Weight(d) == IF d = 0 THEN [inf |-> TRUE, n |-> 0]
                      ELSE [inf |-> FALSE, n |-> 1000000 \div d]

\* (X * w).T.dot(X) for one column: inf when a weight is inf (nan where the
\* row's x is 0: not finite either way)
InfoMatrix(w, X) ==
    [finite |-> \A i \in DOMAIN w : ~w[i].inf,
     n |-> Sum([i \in DOMAIN w |-> IF w[i].inf THEN 0 ELSE X[i][1] * X[i][1] * w[i].n])]

\* np.linalg.pinv of the 1 x 1 matrix a (finite)
ScalarPinv(a) == IF a = 0 THEN 0 ELSE 1000000 \div a

BetaFieldsNaN(beta) ==
    [se |-> [j \in DOMAIN beta |-> NaN], ci_l |-> [j \in DOMAIN beta |-> NaN],
     ci_u |-> [j \in DOMAIN beta |-> NaN], z |-> [j \in DOMAIN beta |-> NaN],
     p |-> [j \in DOMAIN beta |-> NaN]]

BetaFields(beta, se, z_se) ==
    LET z == [j \in DOMAIN beta |-> IF se = 0 THEN NaN ELSE Fin((beta[j] * 1000) \div se)]
    IN [se |-> [j \in DOMAIN beta |-> Fin(se)],
        ci_l |-> [j \in DOMAIN beta |-> Fin(beta[j] - (z_se * se) \div 1000)],
        ci_u |-> [j \in DOMAIN beta |-> Fin(beta[j] + (z_se * se) \div 1000)],
        z |-> z,
        p |-> [j \in DOMAIN beta |->
                 IF z[j].nan THEN NaN
                 ELSE Fin(1000 - Abs(500 - norm_cdf(z[j].n)) * 2)]]

\* The pseudo-inverse runs LAPACK's SVD, which numpy does not guard against
\* non-finite input: depending on the build the call raises LinAlgError
\* ("SVD did not converge") or returns NaN.  svd_raises is the build's outcome.
compute_beta_stats(beta, v, X, tau2, alpha, svd_raises) ==
    LET w == [i \in DOMAIN v |-> Weight(v[i] + tau2)]
        info == InfoMatrix(w, X)
    IN IF ~info.finite
       THEN IF svd_raises
            THEN [raised |-> TRUE, stats |-> <<>>]
            ELSE [raised |-> FALSE, stats |-> BetaFieldsNaN(beta)]
       ELSE [raised |-> FALSE,
             stats |-> BetaFields(beta, np_sqrt(ScalarPinv(info.n)), norm_ppf_upper(alpha))]

----------------------------------------------------------------------------
(* pymare.stats.q_gen and q_profile (imported on line 12), after section   *)
(* 4.2 of the specification, at a resolution of one unit of tau2.          *)

\* bracket doublings before the root finder gives up
MaxExpansions == 8

\* the generalized Q statistic at tau2 (every v_i + tau2 > 0)
q_gen(y, v, X, tau2) ==
    LET w == [i \in DOMAIN v |-> 1000000 \div (v[i] + tau2)]
        sw == Sum([i \in DOMAIN v |-> w[i] * X[i][1] * X[i][1]])
        swy == Sum([i \in DOMAIN v |-> w[i] * X[i][1] * y[i]])
        beta_hat == IF sw = 0 THEN 0 ELSE swy \div sw
        r == [i \in DOMAIN v |-> y[i] - X[i][1] * beta_hat]
    IN Sum([i \in DOMAIN v |-> (w[i] * ((r[i] * r[i]) \div 1000)) \div 1000])

\* chi-square quantiles in thousandths: <<ppf(1 - alpha/2, df), ppf(alpha/2, df)>>
chi2_targets(alpha, df) ==
    CASE alpha = 50 /\ df = 1 -> <<5024, 1>>
      [] alpha = 200 /\ df = 1 -> <<2706, 16>>
      [] alpha = 50 /\ df = 2 -> <<7378, 51>>
      [] alpha = 200 /\ df = 2 -> <<4605, 211>>
      [] alpha = 50 -> <<9348, 216>>
      [] OTHER -> <<6251, 584>>

RECURSIVE ExpandBracket(_, _, _, _, _, _)
\* double the upper end hi (in units) until Q drops to the target; -1 when
\* the expansions are exhausted
ExpandBracket(y, v, X, target, hi, n) ==
    IF q_gen(y, v, X, Milli(hi)) <= target THEN hi
    ELSE IF n = MaxExpansions THEN -1
    ELSE ExpandBracket(y, v, X, target, 2 * hi, n + 1)

RECURSIVE Bisect(_, _, _, _, _, _)
\* Q(lo) > target >= Q(hi): the least unit at which Q is at most the target
Bisect(y, v, X, target, lo, hi) ==
    IF hi - lo <= 1 THEN hi
    ELSE LET mid == (lo + hi) \div 2
         IN IF q_gen(y, v, X, Milli(mid)) <= target
            THEN Bisect(y, v, X, target, lo, mid)
            ELSE Bisect(y, v, X, target, mid, hi)

\* the root of Q(tau2) = target in units, clamped to 0; -1: not converged
QRoot(y, v, X, target) ==
    IF q_gen(y, v, X, 0) <= target THEN 0
    ELSE LET hi == ExpandBracket(y, v, X, target, 1, 0)
         IN IF hi < 0 THEN -1 ELSE Bisect(y, v, X, target, hi \div 2, hi)

q_profile(y, v, X, alpha) ==
    IF \E i \in DOMAIN v : v[i] <= 0
    THEN [error |-> "InputError", ci |-> <<>>]
    ELSE LET t == chi2_targets(alpha, Len(y) - 1)
             lo == QRoot(y, v, X, t[1])
             hi == QRoot(y, v, X, t[2])
         IN IF lo < 0 \/ hi < 0
            THEN [error |-> "NonConvergence", ci |-> <<>>]
            ELSE [error |-> "none",
                  ci |-> [ci_l |-> Fin(Milli(lo)), ci_u |-> Fin(Milli(hi))]]

----------------------------------------------------------------------------
(* State *)

VARIABLES
    dataset,     \* the Dataset: y, v (None when absent), X, names
    svd_raises,  \* the build: whether SVD raises on non-finite input
    params,      \* self.params: name -> dict of fields
    alpha,       \* self.alpha
    ci_method,   \* self.ci_method
    last,        \* the last call: op, its arguments, how it ended, what it returned
    hist,        \* ghost: calls so far, whether all succeeded, arguments last given
    store,       \* two containers: the params mapping each reference holds
    objs,        \* two containers: each one's alpha and ci_method
    pc,          \* two containers: where each one's compute_stats stands
    frame        \* two containers: the locals of each one's compute_stats

vars == <<dataset, svd_raises, params, alpha, ci_method, last, hist,
          store, objs, pc, frame>>

\* the two-container variables, which the one-container specification leaves alone
pvars == <<store, objs, pc, frame>>

\* the observed effects for a spread s: y_i = 2 * i * s
Effects(s) == [i \in Studies |-> Milli(2 * i * s)]

\* the sampling variances: a for the first study, b for the others
Variances ==
    {[i \in Studies |-> IF i = 1 THEN Milli(a) ELSE Milli(b)] : a, b \in 0..MaxV}

\* one column, an intercept
InterceptDesign == [i \in Studies |-> <<1>>]

Datasets ==
    {[y |-> Effects(s), v |-> vo, X |-> InterceptDesign, names |-> <<"intercept">>] :
        s \in 0..MaxY, vo \in {None} \cup {Some(vv) : vv \in Variances}}

Scalars == {None} \cup {Some(Milli(n)) : n \in 0..MaxV}

OptEntry(name, o) == IF o = None THEN <<>> ELSE name :> Get(o)

\* what an estimator hands to the constructor: beta always, tau2 and sigma
\* optionally; sigma comes from the estimators that use no sampling variances
EstimatorOutputs(ds) ==
    {("beta" :> b) @@ OptEntry("tau2", t) @@ OptEntry("sigma", sg) :
        b \in {<<-1000>>, <<2000>>}, t \in Scalars,
        sg \in IF ds.v = None THEN Scalars ELSE {None}}

\* __init__, line 47
InitParams(estimates) == [name \in DOMAIN estimates |-> [est |-> estimates[name]]]

NoCall == [op |-> "init", argA |-> None, argM |-> None, result |-> "ok",
           solver |-> FALSE, out |-> <<>>]

\* nothing called yet: the constructor's values count as the ones last given
NoHistory(prm, a, m) ==
    [n |-> 0, all_ok |-> TRUE, repeated |-> FALSE, alpha_given |-> a,
     method_given |-> m, names |-> DOMAIN prm]

Init ==
    /\ dataset \in Datasets
    /\ svd_raises \in BOOLEAN
    /\ \E e \in EstimatorOutputs(dataset) : params = InitParams(e)
    /\ alpha \in Alphas
    /\ ci_method \in Methods
    /\ last = NoCall
    /\ hist = NoHistory(params, alpha, ci_method)
    /\ store = <<>> /\ objs = <<>> /\ pc = <<>> /\ frame = <<>>

----------------------------------------------------------------------------
(* compute_stats *)

\* lines 90-93: an argument that is given overwrites the stored value
StoreArg(stored, arg) == IF arg # None THEN Get(arg) ELSE stored

\* a variant of VarianceOrSigma: the vector of ones is not scaled by sigma
VarianceOrSigmaOnes(prm, ds) ==
    IF ds.v = None THEN [i \in 1..Len(ds.X) |-> Milli(1)] ELSE Get(ds.v)

\* lines 95, 99-101: the sampling variances, or the sigma estimate (0 when
\* there is none) in every row
VarianceOrSigma(prm, ds) ==
    IF ds.v = None
    THEN LET sg == DictGet(prm, "sigma", [est |-> 0]).est
         IN [i \in 1..Len(ds.X) |-> 1 * sg]
    ELSE Get(ds.v)

\* a variant of LocalAlpha: the argument, or the default 0.05 when it is None
LocalAlphaArgument(stored, argA) == IF argA # None THEN Get(argA) ELSE 50

\* line 97: the local alpha is the stored one, read after lines 90-93
LocalAlpha(stored, argA) == stored

\* a variant of Tau2OrZero: the default estimate is 1
Tau2OrOne(prm) == DictGet(prm, "tau2", [est |-> Milli(1)]).est

\* line 102
Tau2OrZero(prm) == DictGet(prm, "tau2", [est |-> 0]).est

\* line 106
MergeBeta(prm, fixed_stats) == [prm EXCEPT !["beta"] = DictUpdate(@, fixed_stats)]

\* line 109
HasTau2(prm) == "tau2" \in DOMAIN prm

\* a variant of MergeTau2: the upper bound also becomes the estimate
MergeTau2Est(prm, ci) ==
    [prm EXCEPT !["tau2"] = DictUpdate(@, [est |-> ci.ci_u.n, ci_l |-> ci.ci_l, ci_u |-> ci.ci_u])]

\* a variant of MergeTau2: the tau2 entry is given the coefficients' statistics
MergeTau2FixedStats(prm, ci) ==
    [prm EXCEPT !["tau2"] =
        DictUpdate(@, [f \in (DOMAIN prm["beta"]) \ {"est"} |-> prm["beta"][f]])]

\* line 111
MergeTau2(prm, ci) == [prm EXCEPT !["tau2"] = DictUpdate(@, ci)]

\* The whole call on a container holding (prm, a0, m0) over ds.  An exception
\* leaves what was assigned before it.
ComputeStatsRun(prm, ds, a0, m0, argM, argA, svd) ==
    LET a1 == StoreArg(a0, argA)
        m1 == StoreArg(m0, argM)
        v == VarianceOrSigma(prm, ds)
        tau2 == Tau2OrZero(prm)
        a == LocalAlpha(a1, argA)
        fixed == compute_beta_stats(prm["beta"].est, v, ds.X, tau2, a, svd)
        p1 == MergeBeta(prm, fixed.stats)
        ci == q_profile(ds.y, v, ds.X, a)
    IN IF fixed.raised
       THEN [params |-> prm, alpha |-> a1, ci_method |-> m1,
             result |-> "LinAlgError", solver |-> FALSE]
       ELSE IF ~HasTau2(p1)
       THEN [params |-> p1, alpha |-> a1, ci_method |-> m1,
             result |-> "ok", solver |-> FALSE]
       ELSE IF ci.error # "none"
       THEN [params |-> p1, alpha |-> a1, ci_method |-> m1,
             result |-> ci.error, solver |-> TRUE]
       ELSE [params |-> MergeTau2(p1, ci.ci), alpha |-> a1, ci_method |-> m1,
             result |-> "ok", solver |-> TRUE]

compute_stats(argM, argA) ==
    /\ hist.n < MaxCalls
    /\ \E r \in {ComputeStatsRun(params, dataset, alpha, ci_method, argM, argA, svd_raises)} :
          /\ params' = r.params
          /\ alpha' = r.alpha
          /\ ci_method' = r.ci_method
          /\ last' = [op |-> "compute_stats", argA |-> argA, argM |-> argM,
                      result |-> r.result, solver |-> r.solver, out |-> <<>>]
          /\ hist' = [n |-> hist.n + 1,
                      all_ok |-> hist.all_ok /\ r.result = "ok",
                      repeated |-> /\ last.op = "compute_stats"
                                   /\ last.argA = argA
                                   /\ last.argM = argM,
                      alpha_given |-> IF argA = None THEN hist.alpha_given ELSE argA[1],
                      method_given |-> IF argM = None THEN hist.method_given ELSE argM[1],
                      names |-> hist.names]
    /\ UNCHANGED <<dataset, svd_raises, pvars>>

----------------------------------------------------------------------------
(* to_df and __getitem__ *)

Digit(d) == CASE d = 0 -> "0" [] d = 1 -> "1" [] d = 2 -> "2" [] d = 3 -> "3"
              [] d = 4 -> "4" [] d = 5 -> "5" [] d = 6 -> "6" [] d = 7 -> "7"
              [] d = 8 -> "8" [] OTHER -> "9"

\* '{:.6g}'.format(q) for q = m / 1000 in 0..1: no trailing zeros
Format6g(m) ==
    LET d1 == m \div 100
        d2 == (m \div 10) % 10
        d3 == m % 10
    IN IF m >= 1000 THEN "1"
       ELSE IF m = 0 THEN "0"
       ELSE IF d3 # 0 THEN "0." \o Digit(d1) \o Digit(d2) \o Digit(d3)
       ELSE IF d2 # 0 THEN "0." \o Digit(d1) \o Digit(d2)
       ELSE "0." \o Digit(d1)

\* lines 74-76
ToDfColumns(a) ==
    <<"name", "estimate", "se", "z-score", "p-val",
      "ci_" \o Format6g(a \div 2), "ci_" \o Format6g(1000 - a \div 2)>>

\* a variant of ToDfStoredBeta: fixed is the stored entry itself, not a copy
ToDfAliasedBeta(entry, names) == DictUpdate(entry, [name |-> names])

\* lines 65-66: fixed is a copy of the beta entry, so giving it a name
\* leaves the stored entry as it was
ToDfStoredBeta(entry, names) == entry

\* lines 65-73.  strict: whether this pandas raises KeyError on .loc with
\* labels that are not columns (it does from 1.0 on) or fills them with NaN.
ToDfRun(prm, ds, a, strict) ==
    LET p1 == [prm EXCEPT !["beta"] = ToDfStoredBeta(@, ds.names)]
        columns == (DOMAIN prm["beta"]) \cup {"name"} \cup
                   (IF HasTau2(prm) THEN DOMAIN prm["tau2"] ELSE {})
    IN IF ~HasTau2(prm)
       THEN [params |-> p1, result |-> "KeyError", out |-> <<>>]
       ELSE IF strict /\ ~({"name", "est", "se", "z", "p", "ci_l", "ci_u"} \subseteq columns)
       THEN [params |-> p1, result |-> "KeyError", out |-> <<>>]
       ELSE [params |-> p1, result |-> "ok", out |-> ToDfColumns(a)]

to_df ==
    /\ \E strict \in BOOLEAN :
          \E r \in {ToDfRun(params, dataset, alpha, strict)} :
             /\ params' = r.params
             /\ last' = [op |-> "to_df", argA |-> None, argM |-> None,
                         result |-> r.result, solver |-> FALSE, out |-> r.out]
    /\ UNCHANGED <<dataset, svd_raises, alpha, ci_method, hist, pvars>>

Keys == {"beta", "tau2"}

\* line 55
getitem(key) ==
    /\ last' = IF key \in DOMAIN params
               THEN [op |-> "getitem", argA |-> None, argM |-> None,
                     result |-> "ok", solver |-> FALSE, out |-> params[key]]
               ELSE [op |-> "getitem", argA |-> None, argM |-> None,
                     result |-> "KeyError", solver |-> FALSE, out |-> <<>>]
    /\ UNCHANGED <<dataset, svd_raises, params, alpha, ci_method, hist, pvars>>

----------------------------------------------------------------------------

OptAlphas == {None} \cup {Some(a) : a \in Alphas}
OptMethods == {None} \cup {Some(m) : m \in Methods}

Next ==
    \/ \E argM \in OptMethods, argA \in OptAlphas : compute_stats(argM, argA)
    \/ to_df
    \/ \E key \in Keys : getitem(key)

Spec == Init /\ [][Next]_vars

----------------------------------------------------------------------------
(* Two containers over one dataset, compute_stats of each a statement at a *)
(* time.  params, alpha and ci_method hold what both were constructed      *)
(* from and stay as they are.                                              *)

Containers == {"A", "B"}

\* a variant of ParamsRef: every container keeps the mapping it was handed
ParamsRefShared(c) == "A"

\* line 47: the dict comprehension gives each container a mapping, and each
\* name an entry, of its own
ParamsRef(c) == c

NoFrame == [argM |-> None, argA |-> None, v |-> <<>>, beta |-> <<>>, alpha |-> 0,
            tau2 |-> 0, fixed_stats |-> <<>>, ci |-> <<>>, result |-> "none"]

InitPar ==
    /\ dataset \in Datasets
    /\ svd_raises \in BOOLEAN
    /\ \E e \in EstimatorOutputs(dataset) : params = InitParams(e)
    /\ alpha = 50
    /\ ci_method = "QP"
    /\ last = NoCall
    /\ hist = NoHistory(params, alpha, ci_method)
    /\ store = [c \in Containers |-> params]
    /\ objs = [c \in Containers |-> [alpha |-> alpha, ci_method |-> ci_method]]
    /\ pc = [c \in Containers |-> "idle"]
    /\ frame = [c \in Containers |-> NoFrame]

\* lines 95-101 bind the local name v; the dataset keeps its own v
DatasetAfterRead(ds, v) == ds

\* the call, and lines 90-93
cs_store_args(c, argM, argA) ==
    /\ pc[c] = "idle"
    /\ objs' = [objs EXCEPT ![c] = [alpha |-> StoreArg(@.alpha, argA),
                                    ci_method |-> StoreArg(@.ci_method, argM)]]
    /\ frame' = [frame EXCEPT ![c] = [@ EXCEPT !.argM = argM, !.argA = argA]]
    /\ pc' = [pc EXCEPT ![c] = "read"]
    /\ UNCHANGED <<dataset, svd_raises, params, alpha, ci_method, last, hist, store>>

\* lines 95-102
cs_read(c) ==
    /\ pc[c] = "read"
    /\ LET prm == store[ParamsRef(c)]
           v == VarianceOrSigma(prm, dataset)
       IN /\ frame' = [frame EXCEPT ![c] = [@ EXCEPT !.v = v,
                                                     !.beta = prm["beta"].est,
                                                     !.alpha = LocalAlpha(objs[c].alpha, @.argA),
                                                     !.tau2 = Tau2OrZero(prm)]]
          /\ dataset' = DatasetAfterRead(dataset, v)
    /\ pc' = [pc EXCEPT ![c] = "beta_stats"]
    /\ UNCHANGED <<svd_raises, params, alpha, ci_method, last, hist, store, objs>>

\* line 105
cs_beta_stats(c) ==
    /\ pc[c] = "beta_stats"
    /\ \E fixed \in {compute_beta_stats(frame[c].beta, frame[c].v, dataset.X,
                                          frame[c].tau2, frame[c].alpha, svd_raises)} :
          IF fixed.raised
          THEN /\ frame' = [frame EXCEPT ![c] = [@ EXCEPT !.result = "LinAlgError"]]
               /\ pc' = [pc EXCEPT ![c] = "raised"]
          ELSE /\ frame' = [frame EXCEPT ![c] = [@ EXCEPT !.fixed_stats = fixed.stats]]
               /\ pc' = [pc EXCEPT ![c] = "merge_beta"]
    /\ UNCHANGED <<dataset, svd_raises, params, alpha, ci_method, last, hist, store, objs>>

\* line 106
cs_merge_beta(c) ==
    /\ pc[c] = "merge_beta"
    /\ store' = [store EXCEPT ![ParamsRef(c)] = MergeBeta(@, frame[c].fixed_stats)]
    /\ pc' = [pc EXCEPT ![c] = "profile"]
    /\ UNCHANGED <<dataset, svd_raises, params, alpha, ci_method, last, hist, objs, frame>>

\* lines 109-110
cs_profile(c) ==
    /\ pc[c] = "profile"
    /\ IF ~HasTau2(store[ParamsRef(c)])
       THEN /\ frame' = [frame EXCEPT ![c] = [@ EXCEPT !.result = "ok"]]
            /\ pc' = [pc EXCEPT ![c] = "done"]
       ELSE \E ci \in {q_profile(dataset.y, frame[c].v, dataset.X, frame[c].alpha)} :
          IF ci.error # "none"
          THEN /\ frame' = [frame EXCEPT ![c] = [@ EXCEPT !.result = ci.error]]
               /\ pc' = [pc EXCEPT ![c] = "raised"]
          ELSE /\ frame' = [frame EXCEPT ![c] = [@ EXCEPT !.ci = ci.ci]]
               /\ pc' = [pc EXCEPT ![c] = "merge_tau2"]
    /\ UNCHANGED <<dataset, svd_raises, params, alpha, ci_method, last, hist, store, objs>>

\* line 111, and the return
cs_merge_tau2(c) ==
    /\ pc[c] = "merge_tau2"
    /\ store' = [store EXCEPT ![ParamsRef(c)] = MergeTau2(@, frame[c].ci)]
    /\ frame' = [frame EXCEPT ![c] = [@ EXCEPT !.result = "ok"]]
    /\ pc' = [pc EXCEPT ![c] = "done"]
    /\ UNCHANGED <<dataset, svd_raises, params, alpha, ci_method, last, hist, objs>>

\* the arguments of the two-container runs
ParMethods == {None, Some("ML")}

NextPar ==
    \E c \in Containers :
        \/ \E argM \in ParMethods, argA \in OptAlphas : cs_store_args(c, argM, argA)
        \/ cs_read(c)
        \/ cs_beta_stats(c)
        \/ cs_merge_beta(c)
        \/ cs_profile(c)
        \/ cs_merge_tau2(c)

SpecPar == InitPar /\ [][NextPar]_vars

----------------------------------------------------------------------------
(* Properties *)

\* some study's v_i + tau2 is 0 in the container's compute_stats
ZeroDenominator ==
    \E i \in Studies : VarianceOrSigma(params, dataset)[i] + Tau2OrZero(params) = 0

\* every variance in use is positive: the inputs the specification calls valid
ValidVariances == \A i \in Studies : VarianceOrSigma(params, dataset)[i] > 0

StatFields == {"se", "ci_l", "ci_u", "z", "p"}

\* this step is a compute_stats call
IsComputeStep == last'.op = "compute_stats" /\ hist'.n = hist.n + 1

\* C1: with a tau2 entry, compute_stats fails as unsupported whenever the
\* effective ci_method is not "QP", and the solver runs only under "QP";
\* stated for valid variances, where nothing else can fail first.
\* (The code never looks at ci_method.)
C1_UnsupportedMethodFails ==
    (last.op = "compute_stats" /\ HasTau2(params) /\ ValidVariances /\ ci_method # "QP")
        => (last.result = "UnsupportedMethod" /\ ~last.solver)

\* C2: a compute_stats call with an unsupported configuration leaves the
\* parameter mapping as it was; stated for valid variances.  (The code runs
\* the whole computation.)
C2_UnsupportedLeavesParams ==
    [][(IsComputeStep /\ HasTau2(params) /\ ValidVariances /\ ci_method' # "QP")
        => params' = params]_vars

\* C3: a compute_stats call right after one with the same arguments changes
\* neither the parameter mapping nor the stored alpha and ci_method.
C3_Idempotent ==
    [][(IsComputeStep /\ last.op = "compute_stats"
            /\ last'.argA = last.argA /\ last'.argM = last.argM)
        => (params' = params /\ alpha' = alpha /\ ci_method' = ci_method)]_vars

C3_Witness ==
    /\ last.op = "compute_stats" /\ hist.repeated /\ last.result = "ok"
    /\ last.argA # None
    /\ HasTau2(params) /\ "ci_u" \in DOMAIN params["tau2"]
    /\ params["tau2"].ci_u.n > params["tau2"].est

\* the dataset with the absent v replaced by the sigma estimate (0 when
\* there is none) in every row
ExplicitSigma(prm, ds) ==
    [ds EXCEPT !.v = Some([i \in Studies |->
                             IF "sigma" \in DOMAIN prm THEN prm["sigma"].est ELSE 0])]

\* C4: with v absent, compute_stats ends as it does over the dataset whose v
\* holds the sigma estimate (0 without one) in every row: same mapping, same
\* outcome.
C4_AbsentVIsSigma ==
    [][(IsComputeStep /\ dataset.v = None)
        => \E r \in {ComputeStatsRun(params, ExplicitSigma(params, dataset), alpha,
                                      ci_method, last'.argM, last'.argA, svd_raises)} :
              params' = r.params /\ last'.result = r.result]_vars

C4_Witness ==
    /\ last.op = "compute_stats" /\ last.result = "ok" /\ dataset.v = None
    /\ "sigma" \in DOMAIN params /\ params["sigma"].est > 0
    /\ "se" \in DOMAIN params["beta"] /\ ~params["beta"].se[1].nan
    /\ HasTau2(params) /\ "ci_u" \in DOMAIN params["tau2"]

\* C5: when some v_i + tau2 is 0, compute_stats reports a failure and stores
\* no coefficient statistics.  (Without a guard the code returns NaN
\* statistics where SVD does not raise.)
C5_ZeroDenominatorReported ==
    (last.op = "compute_stats" /\ ZeroDenominator)
        => (last.result # "ok" /\ StatFields \cap DOMAIN params["beta"] = {})

\* C6: after successful compute_stats calls the beta entry holds est, se,
\* ci_l, ci_u, z, p and the tau2 entry, when there is one, est, ci_l, ci_u;
\* the solver ran in a call exactly when there is a tau2 entry; the mapping
\* has the names it was constructed with.
C6_EntryFields ==
    /\ DOMAIN params = hist.names
    /\ (last.solver => HasTau2(params))
    /\ (hist.n > 0 /\ hist.all_ok) =>
          /\ DOMAIN params["beta"] = {"est"} \cup StatFields
          /\ HasTau2(params) => DOMAIN params["tau2"] = {"est", "ci_l", "ci_u"}
          /\ last.op = "compute_stats" => (last.solver <=> HasTau2(params))

C6_Witness ==
    /\ hist.n >= 2 /\ hist.all_ok /\ last.op = "compute_stats" /\ last.solver
    /\ DOMAIN params["tau2"] = {"est", "ci_l", "ci_u"}

\* C7: a to_df or __getitem__ step, successful or not, changes neither the
\* parameter mapping, alpha, ci_method nor the dataset; a step that changes
\* one of them is a compute_stats call.
C7_ReadOnly ==
    [][/\ (last'.op \in {"to_df", "getitem"})
            => UNCHANGED <<params, alpha, ci_method, dataset>>
       /\ (<<params, alpha, ci_method, dataset>>' # <<params, alpha, ci_method, dataset>>)
            => last'.op = "compute_stats"]_vars

C7_Witness ==
    /\ last.op = "to_df" /\ last.result = "ok" /\ hist.n > 0
    /\ DOMAIN params["beta"] = {"est"} \cup StatFields

\* how container c's compute_stats ends when it runs alone
Alone(c) ==
    ComputeStatsRun(params, dataset, alpha, ci_method, frame[c].argM, frame[c].argA,
                    svd_raises)

\* C8: under every interleaving, each of two containers over one dataset
\* ends with the mapping, alpha, ci_method and outcome of its compute_stats
\* run alone, and no step changes the dataset.
C8_Isolated ==
    /\ [](\A c \in Containers :
            pc[c] \in {"done", "raised"} =>
                \E r \in {Alone(c)} :
                    /\ store[ParamsRef(c)] = r.params
                    /\ objs[c].alpha = r.alpha
                    /\ objs[c].ci_method = r.ci_method
                    /\ frame[c].result = r.result)
    /\ [][dataset' = dataset]_vars

C8_Witness ==
    /\ pc["A"] = "done" /\ pc["B"] = "done"
    /\ objs["A"].alpha # objs["B"].alpha
    /\ HasTau2(store["A"]) /\ store["A"] # store["B"]

====
